---- MODULE Spec2Model ----
(***************************************************************************)
(* A model of the SLP client core (tools/slp/SLPClientCore.cpp) and of the *)
(* E1.33 root endpoint (tools/e133/RootEndpoint.h).                         *)
(*                                                                         *)
(* The client part is a state machine over the members of SLPClientCore,   *)
(* the heap objects it allocates and frees (channel, stub, the arguments   *)
(* of each pending call, the single use callbacks) and a record `last` of  *)
(* what the most recent operation did.                                     *)
(***************************************************************************)
EXTENDS Integers, Sequences, FiniteSets, TLC

\* ------------------------------------------------------------------------
\* Bounds of the model
\* ------------------------------------------------------------------------
MaxOps == 2
MaxSetups == 2

\* ------------------------------------------------------------------------
\* Input domains
\* ------------------------------------------------------------------------
ServiceNames == {"service:lamp://1", "service:lamp://2"}
Lifetimes == {30, 300}
ScopeLists == {<<>>, <<"B", "A">>}
ErrorTexts == {"Connection closed"}
ReplyCodes == {0, 65535}
Uint16Samples == {0, 7}
Lamp1 == [url |-> "service:lamp://1", lifetime |-> 60]
Lamp2 == [url |-> "service:lamp://2", lifetime |-> 30]
EntryLists == {<<>>, <<Lamp1, Lamp2>>, <<Lamp2, Lamp1>>, <<Lamp1, Lamp1>>}

\* uint16_t assignment
ToUint16(x) == x % 65536

VARIABLES
  m_connected,   \* SLPClientCore::m_connected
  m_channel,     \* SLPClientCore::m_channel: 0 is NULL, else an index of objs
  m_stub,        \* SLPClientCore::m_stub: 0 is NULL, else an index of objs
  objs,          \* the channel/stub pairs allocated so far, with their
                 \* number of deletes
  closes,        \* number of calls of m_descriptor->Close()
  destroyed,     \* the destructor of the client has run
  ops,           \* one record per call of a request method: the callback
                 \* handed in, the arguments created by NewArgs, and
                 \* pre, the value of m_connected when it was called
  method,        \* the method that ran most recently
  last,          \* what that method did
  registry,      \* the endpoints known to the EndpointManager
  rdm            \* the RDM request the root endpoint handled most recently
                 \* and what it did with it

clientVars == <<m_connected, m_channel, m_stub, objs, closes, destroyed, ops,
                method, last>>
routerVars == <<registry, rdm>>
vars == <<m_connected, m_channel, m_stub, objs, closes, destroyed, ops,
          method, last, registry, rdm>>

NoInput == [none |-> TRUE]

Event(pre, ret, in, rpcs, created, runs) ==
  [pre |-> pre, ret |-> ret, in |-> in, rpcs |-> rpcs,
   created |-> created, runs |-> runs]

\* Endpoints of the model, and a root endpoint that has handled nothing
EndpointIds == {0, 1}
Labels == {"", "Stage Left"}
NoEndpoints ==
  [e \in EndpointIds |-> [exists |-> FALSE, identify |-> FALSE, label |-> ""]]
NoRdm == [requests |-> <<>>, rejected |-> FALSE, handlers |-> <<>>,
          calls |-> <<>>]

\* SLPClientCore::SLPClientCore
SLPClientCore ==
  /\ m_connected = FALSE
  /\ m_channel = 0
  /\ m_stub = 0
  /\ objs = <<>>
  /\ closes = 0
  /\ destroyed = FALSE
  /\ ops = <<>>
  /\ method = "SLPClientCore"
  /\ last = Event(FALSE, TRUE, NoInput, <<>>, <<>>, <<>>)

Init ==
  /\ SLPClientCore
  /\ registry = NoEndpoints
  /\ rdm = NoRdm

\* ------------------------------------------------------------------------
\* Connection lifecycle
\* ------------------------------------------------------------------------

\* Setup without the m_connected check: a connected client gets a new
\* channel and stub
Setup_NoGuard ==
  /\ ~destroyed
  /\ method' = "Setup"
  /\ Len(objs) < MaxSetups
  /\ objs' = Append(objs, [channel |-> 0, stub |-> 0])
  /\ m_channel' = Len(objs) + 1
  /\ m_stub' = Len(objs) + 1
  /\ m_connected' = TRUE
  /\ last' = Event(m_connected, TRUE, NoInput, <<>>, <<>>, <<>>)
  /\ UNCHANGED <<closes, destroyed, ops>>
  /\ UNCHANGED routerVars

\* operator new never returns NULL, so the two NULL checks never fire.
Setup ==
  /\ ~destroyed
  /\ method' = "Setup"
  /\ IF m_connected
     THEN /\ last' = Event(m_connected, FALSE, NoInput, <<>>, <<>>, <<>>)
          /\ UNCHANGED <<m_connected, m_channel, m_stub, objs>>
     ELSE /\ Len(objs) < MaxSetups
          /\ objs' = Append(objs, [channel |-> 0, stub |-> 0])
          /\ m_channel' = Len(objs) + 1
          /\ m_stub' = Len(objs) + 1
          /\ m_connected' = TRUE
          /\ last' = Event(m_connected, TRUE, NoInput, <<>>, <<>>, <<>>)
  /\ UNCHANGED <<closes, destroyed, ops>>
  /\ UNCHANGED routerVars

\* The body of Stop() deleting whatever m_channel and m_stub point to,
\* connected or not
StopBody_NoGuard ==
  /\ IF m_channel # 0
     THEN /\ closes' = closes + 1
          /\ objs' = [objs EXCEPT ![m_channel].channel = @ + 1,
                                  ![m_stub].stub = @ + 1]
     ELSE UNCHANGED <<closes, objs>>
  /\ m_connected' = FALSE
  /\ UNCHANGED <<m_channel, m_stub>>

\* The body of Stop() closing the descriptor before it looks at m_connected
StopBody_AlwaysCloses ==
  /\ closes' = closes + 1
  /\ IF m_connected
     THEN objs' = [objs EXCEPT ![m_channel].channel = @ + 1,
                               ![m_stub].stub = @ + 1]
     ELSE UNCHANGED objs
  /\ m_connected' = FALSE
  /\ UNCHANGED <<m_channel, m_stub>>

\* The body of Stop(): close, delete channel, delete stub, m_connected = false
StopBody ==
  /\ IF m_connected
     THEN /\ closes' = closes + 1
          /\ objs' = [objs EXCEPT ![m_channel].channel = @ + 1,
                                  ![m_stub].stub = @ + 1]
     ELSE UNCHANGED <<closes, objs>>
  /\ m_connected' = FALSE
  /\ UNCHANGED <<m_channel, m_stub>>

\* `return 0` in a function returning bool is false
StopReturn == (0 # 0)

\* Stop() that also discards the calls still waiting for their completion
Stop_Cancels ==
  /\ ~destroyed
  /\ method' = "Stop"
  /\ StopBody
  /\ ops' = [i \in 1..Len(ops) |->
               IF ops[i].args = "live"
               THEN [ops[i] EXCEPT !.args = "freed", !.frees = @ + 1,
                                   !.deletes = IF ops[i].callback
                                               THEN @ + 1 ELSE @]
               ELSE ops[i]]
  /\ last' = Event(m_connected, StopReturn, NoInput, <<>>, <<>>, <<>>)
  /\ UNCHANGED destroyed
  /\ UNCHANGED routerVars

Stop ==
  /\ ~destroyed
  /\ method' = "Stop"
  /\ StopBody
  /\ last' = Event(m_connected, StopReturn, NoInput, <<>>, <<>>, <<>>)
  /\ UNCHANGED <<destroyed, ops>>
  /\ UNCHANGED routerVars

\* SLPClientCore::~SLPClientCore
Destructor ==
  /\ ~destroyed
  /\ method' = "~SLPClientCore"
  /\ IF m_connected
     THEN StopBody
     ELSE UNCHANGED <<m_connected, m_channel, m_stub, objs, closes>>
  /\ destroyed' = TRUE
  /\ last' = Event(m_connected, TRUE, NoInput, <<>>, <<>>, <<>>)
  /\ UNCHANGED ops
  /\ UNCHANGED routerVars

\* ------------------------------------------------------------------------
\* Request methods
\* ------------------------------------------------------------------------

\* for (iter = scopes.begin(); iter != scopes.end(); ++iter)
\*   request.add_scope(*iter);
RECURSIVE AddScopes(_, _)
AddScopes(scope, scopes) ==
  IF scopes = <<>> THEN scope
  ELSE AddScopes(Append(scope, Head(scopes)), Tail(scopes))

\* The ServiceRegistration message built by GenericRegisterService
ServiceRegistration(scopes, service, lifetime, persistent) ==
  [url |-> service, scope |-> AddScopes(<<>>, scopes),
   lifetime |-> lifetime, persistent |-> persistent]

\* The ServiceDeRegistration message built by DeRegisterService
ServiceDeRegistration(scopes, service) ==
  [url |-> service, scope |-> AddScopes(<<>>, scopes)]

\* The ServiceRequest message built by FindService
ServiceRequest(scopes, service_type) ==
  [service_type |-> service_type, scope |-> AddScopes(<<>>, scopes)]

\* NewArgs<arg_type>(controller, reply, callback): the arguments of one
\* pending call, bound into the closure given to the stub. callback is
\* TRUE for a callback object and FALSE for NULL.
NewArgs(handler, callback) ==
  [handler |-> handler, callback |-> callback, issued |-> TRUE,
   args |-> "live", frees |-> 0, runs |-> 0, deletes |-> 0,
   uaf |-> FALSE, channel |-> m_channel, pre |-> m_connected]

\* Discarded without the delete: the callback is dropped, not released
Discarded_NoDelete(callback) ==
  [handler |-> "none", callback |-> callback, issued |-> FALSE,
   args |-> "none", frees |-> 0, runs |-> 0, deletes |-> 0,
   uaf |-> FALSE, channel |-> 0, pre |-> m_connected]

\* if (!m_connected) { delete callback; return false; }
\* delete of a NULL callback does nothing.
Discarded(callback) ==
  [handler |-> "none", callback |-> callback, issued |-> FALSE,
   args |-> "none", frees |-> 0, runs |-> 0,
   deletes |-> IF callback THEN 1 ELSE 0,
   uaf |-> FALSE, channel |-> 0, pre |-> m_connected]

\* m_stub->Method(controller, &request, reply, cb)
StubCall(rpc, request) ==
  [method |-> rpc, request |-> request, stub |-> m_stub,
   stubLive |-> (m_stub # 0 /\ objs[m_stub].stub = 0),
   call |-> Len(ops) + 1]

\* What a request method does when the client is not connected
Reject(in) ==
  Event(m_connected, FALSE, in, <<>>, <<>>, <<>>)

\* What a request method does once it has handed the call to the stub
Dispatched(in, rpc, request) ==
  Event(m_connected, TRUE, in, <<StubCall(rpc, request)>>,
        <<Len(ops) + 1>>, <<>>)

GenericRegisterService(scopes, service, lifetime, callback, persistent) ==
  LET in == [scopes |-> scopes, service |-> service,
             lifetime |-> lifetime, callback |-> callback]
  IN
  /\ ~destroyed
  /\ Len(ops) < MaxOps
  /\ IF ~m_connected
     THEN /\ ops' = Append(ops, Discarded(callback))
          /\ last' = Reject(in)
     ELSE /\ ops' = Append(ops, NewArgs("HandleRegistration", callback))
          /\ last' = Dispatched(in, "RegisterService",
                       ServiceRegistration(scopes, service, lifetime,
                                           persistent))
  /\ UNCHANGED <<m_connected, m_channel, m_stub, objs, closes, destroyed>>
  /\ UNCHANGED routerVars

RegisterService(scopes, service, lifetime, callback) ==
  /\ method' = "RegisterService"
  /\ GenericRegisterService(scopes, service, lifetime, callback, FALSE)

\* RegisterPersistentService passing persistent = false
RegisterPersistentService_NotPersistent(scopes, service, lifetime, callback) ==
  /\ method' = "RegisterPersistentService"
  /\ GenericRegisterService(scopes, service, lifetime, callback, FALSE)

RegisterPersistentService(scopes, service, lifetime, callback) ==
  /\ method' = "RegisterPersistentService"
  /\ GenericRegisterService(scopes, service, lifetime, callback, TRUE)

\* DeRegisterService running the callback itself before it returns
DeRegisterService_RunsInline(scopes, service, callback) ==
  LET in == [scopes |-> scopes, service |-> service, callback |-> callback]
      args == NewArgs("HandleRegistration", callback)
  IN
  /\ ~destroyed
  /\ Len(ops) < MaxOps
  /\ method' = "DeRegisterService"
  /\ IF ~m_connected
     THEN /\ ops' = Append(ops, Discarded(callback))
          /\ last' = Reject(in)
     ELSE /\ ops' = Append(ops, IF callback
                                THEN [args EXCEPT !.runs = 1, !.deletes = 1,
                                                  !.args = "freed",
                                                  !.frees = 1]
                                ELSE args)
          /\ last' = Event(m_connected, TRUE, in,
                           <<StubCall("DeRegisterService",
                                      ServiceDeRegistration(scopes, service))>>,
                           <<Len(ops) + 1>>,
                           IF callback
                           THEN <<[call |-> Len(ops) + 1, error |-> "",
                                   result |-> 0]>>
                           ELSE <<>>)
  /\ UNCHANGED <<m_connected, m_channel, m_stub, objs, closes, destroyed>>
  /\ UNCHANGED routerVars

DeRegisterService(scopes, service, callback) ==
  LET in == [scopes |-> scopes, service |-> service, callback |-> callback]
  IN
  /\ ~destroyed
  /\ Len(ops) < MaxOps
  /\ method' = "DeRegisterService"
  /\ IF ~m_connected
     THEN /\ ops' = Append(ops, Discarded(callback))
          /\ last' = Reject(in)
     ELSE /\ ops' = Append(ops, NewArgs("HandleRegistration", callback))
          /\ last' = Dispatched(in, "DeRegisterService",
                                ServiceDeRegistration(scopes, service))
  /\ UNCHANGED <<m_connected, m_channel, m_stub, objs, closes, destroyed>>
  /\ UNCHANGED routerVars

FindService(scopes, service_type, callback) ==
  LET in == [scopes |-> scopes, service |-> service_type,
             callback |-> callback]
  IN
  /\ ~destroyed
  /\ Len(ops) < MaxOps
  /\ method' = "FindService"
  /\ IF ~m_connected
     THEN /\ ops' = Append(ops, Discarded(callback))
          /\ last' = Reject(in)
     ELSE /\ ops' = Append(ops, NewArgs("HandleFindRequest", callback))
          /\ last' = Dispatched(in, "FindService",
                                ServiceRequest(scopes, service_type))
  /\ UNCHANGED <<m_connected, m_channel, m_stub, objs, closes, destroyed>>
  /\ UNCHANGED routerVars

\* ------------------------------------------------------------------------
\* RPC callbacks
\* ------------------------------------------------------------------------

\* What the channel can hand to a completion: a controller that failed with
\* an error text, or one that did not fail
Controllers ==
  {[failed |-> TRUE, error_text |-> t] : t \in ErrorTexts}
    \cup {[failed |-> FALSE, error_text |-> ""]}
ServiceAcks == {[error_code |-> c] : c \in ReplyCodes}
ServiceReplies == {[url_entry |-> e] : e \in EntryLists}

\* args->callback->Run(...): a single use callback deletes itself once it
\* has run. Reading args->callback after FreeArgs is a use after free.
RunCallback(args) ==
  [args EXCEPT !.runs = @ + 1, !.deletes = @ + 1,
               !.uaf = @ \/ args.args # "live"]

\* FreeArgs(args): deletes the controller, the reply and the arguments
FreeArgs(args) ==
  [args EXCEPT !.args = "freed", !.frees = @ + 1]

\* Pending(i): the closure of call i has not run yet
Pending(i, handler) ==
  /\ i \in 1..Len(ops)
  /\ ops[i].issued
  /\ ops[i].args = "live"
  /\ ops[i].handler = handler

\* HandleRegistration never reading the reply
RegistrationResult_KeepsLocal(controller, reply, response_code) ==
  [error |-> IF controller.failed THEN controller.error_text ELSE "",
   result |-> response_code]

\* HandleRegistration reading the reply whether or not the call failed
RegistrationResult_ReadsReply(controller, reply, response_code) ==
  [error |-> IF controller.failed THEN controller.error_text ELSE "",
   result |-> ToUint16(reply.error_code)]

\* Lines 191-195: response_code is the value the uninitialised local
\* happens to hold
RegistrationResult(controller, reply, response_code) ==
  IF controller.failed
  THEN [error |-> controller.error_text, result |-> response_code]
  ELSE [error |-> "", result |-> ToUint16(reply.error_code)]

\* HandleRegistration returning early on a failed call: the arguments are
\* freed and the callback is not run
HandleRegistration_DropsFailure(i, controller, reply, response_code) ==
  LET args == ops[i]
      in == [call |-> i, controller |-> controller, reply |-> reply,
             response_code |-> response_code]
      r == RegistrationResult(controller, reply, response_code)
  IN
  /\ Pending(i, "HandleRegistration")
  /\ method' = "HandleRegistration"
  /\ IF ~args.callback \/ controller.failed
     THEN /\ ops' = [ops EXCEPT ![i] = FreeArgs(args)]
          /\ last' = Event(m_connected, TRUE, in, <<>>, <<>>, <<>>)
     ELSE /\ ops' = [ops EXCEPT ![i] = FreeArgs(RunCallback(args))]
          /\ last' = Event(m_connected, TRUE, in, <<>>, <<>>,
                           <<[call |-> i, error |-> r.error,
                              result |-> r.result]>>)
  /\ UNCHANGED <<m_connected, m_channel, m_stub, objs, closes, destroyed>>
  /\ UNCHANGED routerVars

HandleRegistration(i, controller, reply, response_code) ==
  LET args == ops[i]
      in == [call |-> i, controller |-> controller, reply |-> reply,
             response_code |-> response_code]
      r == RegistrationResult(controller, reply, response_code)
  IN
  /\ Pending(i, "HandleRegistration")
  /\ method' = "HandleRegistration"
  /\ IF ~args.callback
     THEN /\ ops' = [ops EXCEPT ![i] = FreeArgs(args)]
          /\ last' = Event(m_connected, TRUE, in, <<>>, <<>>, <<>>)
     ELSE /\ ops' = [ops EXCEPT ![i] = FreeArgs(RunCallback(args))]
          /\ last' = Event(m_connected, TRUE, in, <<>>, <<>>,
                           <<[call |-> i, error |-> r.error,
                              result |-> r.result]>>)
  /\ UNCHANGED <<m_connected, m_channel, m_stub, objs, closes, destroyed>>
  /\ UNCHANGED routerVars

\* SLPService slp_service(url_entry.url(), url_entry.lifetime())
SLPService(url, lifetime) == [url |-> url, lifetime |-> lifetime]

\* The loop inserting each service at the front of the vector
RECURSIVE PushServices_Reversed(_, _, _)
PushServices_Reversed(reply, i, services) ==
  IF i < Len(reply.url_entry)
  THEN PushServices_Reversed(reply, i + 1,
         <<SLPService(reply.url_entry[i + 1].url,
                      reply.url_entry[i + 1].lifetime)>> \o services)
  ELSE services

\* for (int i = 0; i < args->reply->url_entry_size(); ++i)
\*   services.push_back(SLPService(...));
RECURSIVE PushServices(_, _, _)
PushServices(reply, i, services) ==
  IF i < Len(reply.url_entry)
  THEN PushServices(reply, i + 1,
         Append(services, SLPService(reply.url_entry[i + 1].url,
                                     reply.url_entry[i + 1].lifetime)))
  ELSE services

\* Lines 213-221
FindResult(controller, reply) ==
  IF controller.failed
  THEN [error |-> controller.error_text, result |-> <<>>]
  ELSE [error |-> "", result |-> PushServices(reply, 0, <<>>)]

\* HandleFindRequest completing the oldest FindService call still waiting,
\* whichever call the completion is for
HandleFindRequest_Fifo(i, controller, reply) ==
  LET j == CHOOSE k \in 1..Len(ops) :
             /\ Pending(k, "HandleFindRequest")
             /\ \A l \in 1..(k - 1) : ~Pending(l, "HandleFindRequest")
      args == ops[j]
      in == [call |-> i, controller |-> controller, reply |-> reply]
      r == FindResult(controller, reply)
  IN
  /\ Pending(i, "HandleFindRequest")
  /\ method' = "HandleFindRequest"
  /\ IF ~args.callback
     THEN /\ ops' = [ops EXCEPT ![j] = FreeArgs(args)]
          /\ last' = Event(m_connected, TRUE, in, <<>>, <<>>, <<>>)
     ELSE /\ ops' = [ops EXCEPT ![j] = FreeArgs(RunCallback(args))]
          /\ last' = Event(m_connected, TRUE, in, <<>>, <<>>,
                           <<[call |-> j, error |-> r.error,
                              result |-> r.result]>>)
  /\ UNCHANGED <<m_connected, m_channel, m_stub, objs, closes, destroyed>>
  /\ UNCHANGED routerVars

\* HandleFindRequest marking the client disconnected when the call failed
HandleFindRequest_StopsOnFailure(i, controller, reply) ==
  LET args == ops[i]
      in == [call |-> i, controller |-> controller, reply |-> reply]
      r == FindResult(controller, reply)
  IN
  /\ Pending(i, "HandleFindRequest")
  /\ method' = "HandleFindRequest"
  /\ IF ~args.callback
     THEN /\ ops' = [ops EXCEPT ![i] = FreeArgs(args)]
          /\ last' = Event(m_connected, TRUE, in, <<>>, <<>>, <<>>)
     ELSE /\ ops' = [ops EXCEPT ![i] = FreeArgs(RunCallback(args))]
          /\ last' = Event(m_connected, TRUE, in, <<>>, <<>>,
                           <<[call |-> i, error |-> r.error,
                              result |-> r.result]>>)
  /\ m_connected' = (m_connected /\ ~controller.failed)
  /\ UNCHANGED <<m_channel, m_stub, objs, closes, destroyed>>
  /\ UNCHANGED routerVars

\* HandleFindRequest without the check for a NULL callback
HandleFindRequest_NoNullCheck(i, controller, reply) ==
  LET args == ops[i]
      in == [call |-> i, controller |-> controller, reply |-> reply]
      r == FindResult(controller, reply)
  IN
  /\ Pending(i, "HandleFindRequest")
  /\ method' = "HandleFindRequest"
  /\ ops' = [ops EXCEPT ![i] = FreeArgs(RunCallback(args))]
  /\ last' = Event(m_connected, TRUE, in, <<>>, <<>>,
                   <<[call |-> i, error |-> r.error,
                      result |-> r.result]>>)
  /\ UNCHANGED <<m_connected, m_channel, m_stub, objs, closes, destroyed>>
  /\ UNCHANGED routerVars

HandleFindRequest(i, controller, reply) ==
  LET args == ops[i]
      in == [call |-> i, controller |-> controller, reply |-> reply]
      r == FindResult(controller, reply)
  IN
  /\ Pending(i, "HandleFindRequest")
  /\ method' = "HandleFindRequest"
  /\ IF ~args.callback
     THEN /\ ops' = [ops EXCEPT ![i] = FreeArgs(args)]
          /\ last' = Event(m_connected, TRUE, in, <<>>, <<>>, <<>>)
     ELSE /\ ops' = [ops EXCEPT ![i] = FreeArgs(RunCallback(args))]
          /\ last' = Event(m_connected, TRUE, in, <<>>, <<>>,
                           <<[call |-> i, error |-> r.error,
                              result |-> r.result]>>)
  /\ UNCHANGED <<m_connected, m_channel, m_stub, objs, closes, destroyed>>
  /\ UNCHANGED routerVars

\* ------------------------------------------------------------------------
\* The client and its channel
\* ------------------------------------------------------------------------
Next ==
  \/ Setup
  \/ Stop
  \/ Destructor
  \/ \E scopes \in ScopeLists, service \in ServiceNames,
        lifetime \in Lifetimes, callback \in BOOLEAN :
       RegisterService(scopes, service, lifetime, callback)
  \/ \E scopes \in ScopeLists, service \in ServiceNames,
        lifetime \in Lifetimes, callback \in BOOLEAN :
       RegisterPersistentService(scopes, service, lifetime, callback)
  \/ \E scopes \in ScopeLists, service \in ServiceNames,
        callback \in BOOLEAN :
       DeRegisterService(scopes, service, callback)
  \/ \E scopes \in ScopeLists, service_type \in ServiceNames,
        callback \in BOOLEAN :
       FindService(scopes, service_type, callback)
  \/ \E i \in 1..MaxOps, controller \in Controllers,
        reply \in ServiceAcks, response_code \in Uint16Samples :
       HandleRegistration(i, controller, reply, response_code)
  \/ \E i \in 1..MaxOps, controller \in Controllers,
        reply \in ServiceReplies :
       HandleFindRequest(i, controller, reply)

Spec == Init /\ [][Next]_vars

\* ------------------------------------------------------------------------
\* The root endpoint (RootEndpoint.h declares it; its behaviour is taken
\* from the design description of the command router)
\* ------------------------------------------------------------------------
ALL_RDM_SUBDEVICES == 65535
SubDevices == {0, 1, ALL_RDM_SUBDEVICES}
Pids == {"ENDPOINT_LIST", "ENDPOINT_IDENTIFY", "ENDPOINT_LABEL",
         "TCP_COMMS_STATUS", "DEVICE_INFO"}
\* The parameters that may be addressed to all sub-devices, and the
\* parameters that take no parameter data
AllSubDevicePids == {"ENDPOINT_IDENTIFY"}
NoDataPids == {"ENDPOINT_LIST", "TCP_COMMS_STATUS"}

RDMRequests ==
  [pid : Pids, sub_device : SubDevices, broadcast : BOOLEAN,
   set : BOOLEAN, endpoint : EndpointIds, data : Labels]

Registries ==
  {[e \in EndpointIds |->
      [exists |-> e \in present, identify |-> FALSE, label |-> ""]] :
     present \in SUBSET EndpointIds}

Ack == [type |-> "ACK"]
AckWithData(data) == [type |-> "ACK", data |-> data]
Nack(reason) == [type |-> "NACK", reason |-> reason]

\* CheckForBroadcastSubdeviceOrData without the sub-device clause
CheckForBroadcastSubdeviceOrData_DataOnly(request) ==
  /\ request.broadcast
  /\ request.data # ""
  /\ request.pid \in NoDataPids

\* The precondition check: TRUE when the request is rejected before any
\* handler runs
CheckForBroadcastSubdeviceOrData(request) ==
  \/ /\ request.sub_device = ALL_RDM_SUBDEVICES
     /\ request.pid \notin AllSubDevicePids
  \/ /\ request.broadcast
     /\ request.data # ""
     /\ request.pid \in NoDataPids

\* Each handler yields the response it builds and the registry it leaves
HandleEndpointList(request) ==
  [registry |-> registry,
   response |->
     IF request.sub_device # 0 THEN Nack("NR_SUB_DEVICE_OUT_OF_RANGE")
     ELSE IF request.set THEN Nack("NR_UNSUPPORTED_COMMAND_CLASS")
     ELSE AckWithData({e \in EndpointIds : registry[e].exists})]

HandleEndpointIdentify(request) ==
  IF ~registry[request.endpoint].exists
  THEN [registry |-> registry, response |-> Nack("NR_DATA_OUT_OF_RANGE")]
  ELSE IF request.set
  THEN [registry |-> [registry EXCEPT
                        ![request.endpoint].identify = (request.data # "")],
        response |-> Ack]
  ELSE [registry |-> registry,
        response |-> AckWithData(registry[request.endpoint].identify)]

\* HandleEndpointLabel setting the label without looking the endpoint up
HandleEndpointLabel_NoLookup(request) ==
  IF request.set
  THEN [registry |-> [registry EXCEPT
                        ![request.endpoint].label = request.data],
        response |-> Ack]
  ELSE [registry |-> registry,
        response |-> AckWithData(registry[request.endpoint].label)]

HandleEndpointLabel(request) ==
  IF ~registry[request.endpoint].exists
  THEN [registry |-> registry, response |-> Nack("NR_DATA_OUT_OF_RANGE")]
  ELSE IF request.set
  THEN [registry |-> [registry EXCEPT
                        ![request.endpoint].label = request.data],
        response |-> Ack]
  ELSE [registry |-> registry,
        response |-> AckWithData(registry[request.endpoint].label)]

HandleTCPCommsStatus(request) ==
  [registry |-> registry,
   response |-> IF request.set THEN Nack("NR_UNSUPPORTED_COMMAND_CLASS")
                ELSE AckWithData("TCP_COMMS_STATUS")]

HandleUnknownPID(request) ==
  [registry |-> registry, response |-> Nack("NR_UNKNOWN_PID")]

HandlerFor(pid) ==
  CASE pid = "ENDPOINT_LIST" -> "HandleEndpointList"
    [] pid = "ENDPOINT_IDENTIFY" -> "HandleEndpointIdentify"
    [] pid = "ENDPOINT_LABEL" -> "HandleEndpointLabel"
    [] pid = "TCP_COMMS_STATUS" -> "HandleTCPCommsStatus"
    [] OTHER -> "HandleUnknownPID"

Dispatch(request) ==
  CASE request.pid = "ENDPOINT_LIST" -> HandleEndpointList(request)
    [] request.pid = "ENDPOINT_IDENTIFY" -> HandleEndpointIdentify(request)
    [] request.pid = "ENDPOINT_LABEL" -> HandleEndpointLabel(request)
    [] request.pid = "TCP_COMMS_STATUS" -> HandleTCPCommsStatus(request)
    [] OTHER -> HandleUnknownPID(request)

\* The parameters the root endpoint has a handler for
HandledPids == {"ENDPOINT_LIST", "ENDPOINT_IDENTIFY", "ENDPOINT_LABEL",
                "TCP_COMMS_STATUS"}

\* The NACK of a request rejected by the precondition check: a parameter
\* without handler is answered as an unsupported parameter in every case
RejectionResponse(request) ==
  Nack(IF request.pid \notin HandledPids THEN "NR_UNKNOWN_PID"
       ELSE IF request.sub_device = ALL_RDM_SUBDEVICES
       THEN "NR_SUB_DEVICE_OUT_OF_RANGE"
       ELSE "NR_FORMAT_ERROR")

\* RunRDMCallback not invoking the callback for a NACK
RunRDMCallback_DropsNack(request, response) ==
  IF response.type = "NACK" THEN <<>>
  ELSE <<[response |-> IF request.broadcast THEN <<>> ELSE <<response>>]>>

\* RunRDMCallback handing over the response of a broadcast as well
RunRDMCallback_Answers(request, response) ==
  <<[response |-> <<response>>]>>

\* The callback invoked with the response: a broadcast gets the callback
\* invoked with no response
RunRDMCallback(request, response) ==
  <<[response |-> IF request.broadcast THEN <<>> ELSE <<response>>]>>

SendRDMRequest(request) ==
  /\ IF CheckForBroadcastSubdeviceOrData(request)
     THEN /\ registry' = registry
          /\ rdm' = [requests |-> <<request>>, rejected |-> TRUE,
                     handlers |-> <<>>,
                     calls |-> RunRDMCallback(request,
                                              RejectionResponse(request))]
     ELSE LET r == Dispatch(request)
          IN /\ registry' = r.registry
             /\ rdm' = [requests |-> <<request>>, rejected |-> FALSE,
                        handlers |-> <<HandlerFor(request.pid)>>,
                        calls |-> RunRDMCallback(request, r.response)]
  /\ UNCHANGED clientVars

RouterInit ==
  /\ SLPClientCore
  /\ registry \in Registries
  /\ rdm = NoRdm

RouterNext == \E request \in RDMRequests : SendRDMRequest(request)

RouterSpec == RouterInit /\ [][RouterNext]_vars

\* ------------------------------------------------------------------------
\* Properties of the client
\* ------------------------------------------------------------------------
IsRequest ==
  method \in {"RegisterService", "RegisterPersistentService",
              "DeRegisterService", "FindService"}
IsHandler == method \in {"HandleRegistration", "HandleFindRequest"}
Calls == 1..Len(ops)

\* C1: a request method called on a client that is not connected returns
\* false, issues no RPC, creates no arguments for a pending call, and
\* deletes the callback it was given exactly once; that callback is not run
\* then or at any later time.
C1_DisconnectedDiscards ==
  /\ (IsRequest /\ ~last.pre) =>
       /\ last.ret = FALSE
       /\ last.rpcs = <<>>
       /\ last.created = <<>>
       /\ last.runs = <<>>
       /\ ~ops[Len(ops)].pre
  /\ \A i \in Calls : ~ops[i].pre =>
       /\ ~ops[i].issued
       /\ ops[i].args = "none"
       /\ ops[i].runs = 0
       /\ ops[i].deletes = (IF ops[i].callback THEN 1 ELSE 0)
       /\ ~ops[i].uaf

\* A callback discarded after Stop(), still not run after a later call
C1_Witness ==
  /\ Len(ops) = 2
  /\ closes > 0
  /\ ~ops[1].pre /\ ops[1].callback /\ ops[1].deletes = 1
  /\ ops[2].args = "freed"

\* C2: a call issued on a connected client with a callback has its callback
\* run exactly once and its arguments freed exactly once when its completion
\* is delivered; before that the callback has not run, and it never runs
\* twice.
C2_CompletionRunsOnce ==
  /\ \A i \in Calls : (ops[i].pre /\ ops[i].callback) =>
       /\ ops[i].runs <= 1 /\ ops[i].frees <= 1 /\ ops[i].deletes <= 1
       /\ ops[i].args = "live" =>
            ops[i].runs = 0 /\ ops[i].frees = 0 /\ ops[i].deletes = 0
       /\ ops[i].args = "freed" =>
            ops[i].runs = 1 /\ ops[i].frees = 1 /\ ops[i].deletes = 1
  /\ (IsHandler /\ ops[last.in.call].callback) =>
       /\ Len(last.runs) = 1
       /\ last.runs[1].call = last.in.call
       /\ ops[last.in.call].args = "freed"

\* Both a failed and a successful completion have been delivered
C2_Witness ==
  /\ Len(ops) = 2
  /\ \A i \in Calls : ops[i].callback /\ ops[i].args = "freed"
  /\ method = "HandleFindRequest" /\ last.in.controller.failed
  /\ ops[1].handler = "HandleRegistration"

\* C3: Stop() leaves the client disconnected and returns true, from any
\* state, so also when it is called twice in a row.
C3_StopIdempotent ==
  method = "Stop" => (~m_connected /\ last.ret = TRUE)

\* C4: the arguments of a pending call are freed at most once and never
\* used after they were freed, and none is still allocated once the client
\* has been destroyed.
C4_NoUseAfterFreeNoLeak ==
  /\ \A i \in Calls : ~ops[i].uaf /\ ops[i].frees <= 1
  /\ destroyed => \A i \in Calls : ops[i].args # "live"

\* C5: when the controller reports failure, a callback is run exactly once
\* with the non-empty error text of the controller; FindService callbacks
\* get no services whatever the reply holds, and registration callbacks get
\* the value the uninitialised response_code holds, not the reply's code.
C5_FailureResult ==
  (IsHandler /\ last.in.controller.failed /\ ops[last.in.call].callback) =>
    /\ Len(last.runs) = 1
    /\ ops[last.in.call].runs = 1
    /\ last.runs[1].error # ""
    /\ last.runs[1].error = last.in.controller.error_text
    /\ method = "HandleFindRequest" => last.runs[1].result = <<>>
    /\ method = "HandleRegistration" =>
         last.runs[1].result = last.in.response_code

\* A failed registration whose reply holds another code than the callback got
C5_Witness ==
  /\ method = "HandleRegistration"
  /\ last.in.controller.failed
  /\ Len(last.runs) = 1
  /\ last.runs[1].result # last.in.reply.error_code

\* C6: on a successful FindService completion the callback gets an empty
\* error text and one service per url_entry of the reply, in the reply's
\* order, each with the url and the lifetime of its entry.
C6_FindResult ==
  (/\ method = "HandleFindRequest"
   /\ ~last.in.controller.failed
   /\ ops[last.in.call].callback) =>
    /\ Len(last.runs) = 1
    /\ last.runs[1].error = ""
    /\ Len(last.runs[1].result) = Len(last.in.reply.url_entry)
    /\ \A k \in 1..Len(last.in.reply.url_entry) :
         /\ last.runs[1].result[k].url = last.in.reply.url_entry[k].url
         /\ last.runs[1].result[k].lifetime =
              last.in.reply.url_entry[k].lifetime

\* The reply with lamp 1 (lifetime 60) followed by lamp 2 (lifetime 30)
C6_Witness ==
  /\ method = "HandleFindRequest"
  /\ ~last.in.controller.failed
  /\ last.in.reply.url_entry = <<Lamp1, Lamp2>>
  /\ Len(last.runs) = 1
  /\ last.runs[1].result[2].lifetime = 30

\* C7: on a connected client RegisterService and RegisterPersistentService
\* issue exactly one RegisterService RPC whose request has the url, scopes
\* and lifetime given, with persistent false for the first and true for the
\* second; DeRegisterService issues exactly one DeRegisterService RPC whose
\* request has only the url and the scopes given.
C7_Requests ==
  /\ (last.pre /\ method \in {"RegisterService",
                              "RegisterPersistentService"}) =>
       /\ Len(last.rpcs) = 1
       /\ last.rpcs[1].method = "RegisterService"
       /\ DOMAIN last.rpcs[1].request =
            {"url", "scope", "lifetime", "persistent"}
       /\ last.rpcs[1].request.url = last.in.service
       /\ last.rpcs[1].request.scope = last.in.scopes
       /\ last.rpcs[1].request.lifetime = last.in.lifetime
       /\ last.rpcs[1].request.persistent =
            (method = "RegisterPersistentService")
  /\ (last.pre /\ method = "DeRegisterService") =>
       /\ Len(last.rpcs) = 1
       /\ last.rpcs[1].method = "DeRegisterService"
       /\ DOMAIN last.rpcs[1].request = {"url", "scope"}
       /\ last.rpcs[1].request.url = last.in.service
       /\ last.rpcs[1].request.scope = last.in.scopes

\* A persistent registration with two scopes and lifetime 300
C7_Witness ==
  /\ method = "RegisterPersistentService"
  /\ last.pre
  /\ Len(last.rpcs) = 1
  /\ last.rpcs[1].request.persistent
  /\ last.rpcs[1].request.scope = <<"B", "A">>
  /\ last.rpcs[1].request.lifetime = 300

\* C8: Setup() on a connected client returns false and changes neither the
\* connection state nor the channel and stub; on a client that is not
\* connected it returns true and leaves the client connected with a channel
\* and a stub that did not exist before.
C8_Setup ==
  [][method' = "Setup" =>
       IF m_connected
       THEN /\ last'.ret = FALSE
            /\ m_connected'
            /\ UNCHANGED <<m_channel, m_stub, objs, closes>>
       ELSE /\ last'.ret = TRUE
            /\ m_connected'
            /\ m_channel' \in (1..Len(objs')) \ (1..Len(objs))
            /\ m_stub' \in (1..Len(objs')) \ (1..Len(objs))
            /\ objs'[m_channel'].channel = 0
            /\ objs'[m_stub'].stub = 0
            /\ \A k \in 1..Len(objs) : objs'[k] = objs[k]]_vars

\* Setup() refused on a client connected by its second Setup()
C8_Witness ==
  /\ method = "Setup"
  /\ last.pre /\ ~last.ret
  /\ m_connected
  /\ m_channel = 2
  /\ objs[1].channel = 1

\* C9: a request method given a NULL callback on a connected client still
\* issues its RPC and returns true; the completion of that call frees its
\* arguments exactly once and runs no callback, whether the controller
\* failed or not.
C9_NullCallback ==
  /\ (IsRequest /\ last.pre /\ ~last.in.callback) =>
       /\ last.ret = TRUE
       /\ Len(last.rpcs) = 1
       /\ last.created = <<Len(ops)>>
  /\ (IsHandler /\ ~ops[last.in.call].callback) =>
       /\ last.runs = <<>>
       /\ ops[last.in.call].args = "freed"
  /\ \A i \in Calls : (ops[i].pre /\ ~ops[i].callback) =>
       /\ ops[i].runs = 0 /\ ops[i].deletes = 0 /\ ~ops[i].uaf
       /\ ops[i].frees = (IF ops[i].args = "freed" THEN 1 ELSE 0)

\* Two calls without callback completed, one failed and one not
C9_Witness ==
  /\ Len(ops) = 2
  /\ \A i \in Calls : ~ops[i].callback /\ ops[i].frees = 1
  /\ method = "HandleRegistration" /\ ~last.in.controller.failed
  /\ ops[1].handler = "HandleFindRequest"

\* The steps of the request methods, of the completion handlers, and of
\* the methods that tear the connection down
RequestMethods == {"RegisterService", "RegisterPersistentService",
                   "DeRegisterService", "FindService"}
HandlerMethods == {"HandleRegistration", "HandleFindRequest"}
TeardownMethods == {"Stop", "~SLPClientCore"}

\* Call i was issued on a channel that Stop() has deleted since
ChannelGone(i) ==
  /\ ops[i].issued
  /\ ops[i].channel \in 1..Len(objs)
  /\ objs[ops[i].channel].channel > 0

\* C14: Stop() leaves every call as it is: it runs no callback, deletes
\* none and frees the arguments of none. The callback of a call whose
\* channel Stop() has deleted runs only in the completion of that call,
\* there exactly once, and so never more than once.
C14_StopKeepsCalls ==
  [][/\ method' = "Stop" =>
          (ops' = ops /\ last'.runs = <<>> /\ last'.created = <<>>)
     /\ \A i \in 1..Len(ops) : ChannelGone(i) =>
          /\ ops'[i].runs <= 1
          /\ ops'[i] # ops[i] =>
               /\ method' \in HandlerMethods
               /\ last'.in.call = i
               /\ ops[i].runs = 0
               /\ ops'[i].runs = (IF ops[i].callback THEN 1 ELSE 0)
               /\ Len(last'.runs) = ops'[i].runs]_vars

\* A completion delivered after Stop() deleted the channel of its call
C14_Witness ==
  /\ method = "HandleRegistration"
  /\ ChannelGone(last.in.call)
  /\ ops[last.in.call].callback
  /\ ops[last.in.call].runs = 1
  /\ ~m_connected
  /\ ~destroyed

\* C15: a connected client has a channel and a stub that are not deleted;
\* no channel and no stub is deleted twice; once the client is destroyed
\* every channel and stub has been deleted; and no RPC is issued on a
\* deleted stub.
C15_ChannelAndStub ==
  /\ m_connected =>
       /\ m_channel \in 1..Len(objs) /\ objs[m_channel].channel = 0
       /\ m_stub \in 1..Len(objs) /\ objs[m_stub].stub = 0
  /\ \A k \in 1..Len(objs) : objs[k].channel <= 1 /\ objs[k].stub <= 1
  /\ destroyed =>
       \A k \in 1..Len(objs) : objs[k].channel = 1 /\ objs[k].stub = 1
  /\ \A k \in 1..Len(last.rpcs) : last.rpcs[k].stubLive

\* A client destroyed while connected for the second time, after a Stop()
\* on a client already stopped
C15_Witness ==
  /\ destroyed
  /\ last.pre
  /\ Len(objs) = 2
  /\ closes = 2
  /\ Len(ops) = 2
  /\ ops[1].issued /\ ~ops[2].issued

\* C16: a completion changes only the call it is for, in whatever order
\* calls complete: it leaves every other call as it was, and the callback
\* it runs is that call's, with the error text and result taken from the
\* controller and reply of that completion.
C16_OwnCallOnly ==
  [][method' \in HandlerMethods =>
       LET i == last'.in.call
           c == last'.in.controller
       IN
       /\ Len(ops') = Len(ops)
       /\ \A j \in 1..Len(ops) : j # i => ops'[j] = ops[j]
       /\ \A k \in 1..Len(last'.runs) :
            /\ last'.runs[k].call = i
            /\ last'.runs[k].error = (IF c.failed THEN c.error_text ELSE "")
            /\ (method' = "HandleFindRequest" /\ ~c.failed) =>
                 Len(last'.runs[k].result) = Len(last'.in.reply.url_entry)
            /\ (method' = "HandleRegistration" /\ ~c.failed) =>
                 last'.runs[k].result = last'.in.reply.error_code % 65536]_vars

\* Two FindService calls waiting at once, the second completed first
C16_Witness ==
  /\ Len(ops) = 2
  /\ ops[1].handler = "HandleFindRequest" /\ ops[1].callback
  /\ ops[1].args = "live" /\ ops[1].runs = 0
  /\ ops[2].handler = "HandleFindRequest" /\ ops[2].callback
  /\ ops[2].args = "freed" /\ ops[2].runs = 1
  /\ method = "HandleFindRequest" /\ last.in.call = 2

\* C17: the request methods and the completion handlers leave m_connected,
\* m_channel, m_stub, the channel and stub objects and the descriptor as
\* they are; these change only in Setup(), Stop() and the destructor.
C17_ConnectionFrame ==
  [][/\ method' \in RequestMethods \cup HandlerMethods =>
          UNCHANGED <<m_connected, m_channel, m_stub, objs, closes>>
     /\ <<m_connected, m_channel, m_stub, objs>>' #
          <<m_connected, m_channel, m_stub, objs>> =>
          method' \in {"Setup"} \cup TeardownMethods]_vars

\* A failed completion on a client that stays connected
C17_Witness ==
  /\ method = "HandleFindRequest"
  /\ last.in.controller.failed
  /\ last.pre
  /\ m_connected
  /\ objs[m_channel].channel = 0

C19_DispatchedNotCompleted ==
  [][/\ method' \in RequestMethods =>
          /\ last'.runs = <<>>
          /\ \A i \in 1..Len(ops') :
               ops'[i].runs = (IF i <= Len(ops) THEN ops[i].runs ELSE 0)
          /\ last'.ret = (last'.created # <<>>)
     /\ \A i \in 1..Len(ops) : ops'[i].runs # ops[i].runs =>
          /\ method' \in HandlerMethods
          /\ last'.in.call = i
          /\ ops[i].issued /\ ops[i].args = "live"]_vars

\* A call just dispatched with its callback not run, next to a call whose
\* callback ran in its completion
C19_Witness ==
  /\ Len(ops) = 2
  /\ method = "DeRegisterService"
  /\ last.ret /\ last.created = <<2>>
  /\ ops[2].callback /\ ops[2].runs = 0 /\ ops[2].args = "live"
  /\ ops[1].runs = 1

\* C20: Stop() on a client that is not connected changes nothing but its
\* return value; the descriptor is closed and a channel and stub are
\* deleted only by a Stop() or a destructor that finds the client
\* connected.
C20_StopWhenDisconnected ==
  [][/\ (method' = "Stop" /\ ~m_connected) =>
          UNCHANGED <<m_connected, m_channel, m_stub, objs, closes,
                      destroyed, ops>>
     /\ (closes' # closes
           \/ \E k \in 1..Len(objs) : objs'[k] # objs[k]) =>
          /\ m_connected
          /\ method' \in TeardownMethods
          /\ closes' = closes + 1
          /\ objs' = [objs EXCEPT ![m_channel].channel = 1,
                                  ![m_stub].stub = 1]]_vars

\* A second Stop() in a row after a connection was closed
C20_Witness ==
  /\ method = "Stop"
  /\ ~last.pre
  /\ closes = 1
  /\ Len(objs) = 1
  /\ objs[1] = [channel |-> 1, stub |-> 1]

\* ------------------------------------------------------------------------
\* Properties of the root endpoint
\* ------------------------------------------------------------------------

\* C10: a broadcast request handed to SendRDMRequest, whatever its
\* parameter, sub-device and parameter data, gets its callback invoked once
\* with no response.
C10_BroadcastNoResponse ==
  \A k \in 1..Len(rdm.requests) : rdm.requests[k].broadcast =>
    /\ Len(rdm.calls) = 1
    /\ rdm.calls[1].response = <<>>

\* A broadcast SET of an endpoint label that reached its handler and
\* changed the label
C10_Witness ==
  /\ Len(rdm.requests) = 1
  /\ rdm.requests[1].broadcast
  /\ rdm.requests[1].pid = "ENDPOINT_LABEL"
  /\ rdm.handlers = <<"HandleEndpointLabel">>
  /\ registry[rdm.requests[1].endpoint].label = "Stage Left"
  /\ rdm.calls = <<[response |-> <<>>]>>

C12_AllSubDevicesRejected ==
  [][\A k \in 1..Len(rdm'.requests) :
       (/\ rdm'.requests[k].sub_device = ALL_RDM_SUBDEVICES
        /\ rdm'.requests[k].pid \notin AllSubDevicePids) =>
         /\ rdm'.rejected
         /\ rdm'.handlers = <<>>
         /\ registry' = registry]_vars

\* A SET of an endpoint label to all sub-devices, rejected on an endpoint
\* that exists
C12_Witness ==
  /\ Len(rdm.requests) = 1
  /\ rdm.requests[1].sub_device = ALL_RDM_SUBDEVICES
  /\ rdm.requests[1].pid = "ENDPOINT_LABEL"
  /\ rdm.requests[1].set /\ rdm.requests[1].data = "Stage Left"
  /\ registry[rdm.requests[1].endpoint].exists
  /\ registry[rdm.requests[1].endpoint].label = ""
  /\ rdm.rejected

====
